---- MODULE Spec2Model ----
(***************************************************************************)
(* A model of package actor (src/actor.go, the RWMutex revision, lines     *)
(* 110-258) and of the key/value acts of the example program               *)
(* (src/unnamed/part_000).                                                 *)
(*                                                                         *)
(* One goroutine is one process of the model: a lane's dispatcher          *)
(* (action), a call's forwarding goroutine (the closure started by the     *)
(* wrapper Teach returns), a Teach call, a Shutdown call and the caller    *)
(* that invokes wrappers and reads response channels.  Every access to     *)
(* shared memory or to a channel is one step.                              *)
(***************************************************************************)
EXTENDS Integers, Sequences, FiniteSets, TLC

\* ---------------------------------------------------------------- bounds
MaxLanes == 2       \* Teach calls over the whole run
MaxCalls == 2       \* wrapper invocations over the whole run
MaxShutdowns == 2   \* Shutdown calls per actor, where it is called repeatedly
DownLanes == 2      \* Teach calls and wrapper invocations between them
DownCalls == 1
LiveLanes == 1      \* the same bounds for the specification with fairness
LiveCalls == 2
RaceLanes == 2      \* and for the one with unsynchronised Teach calls
RaceCalls == 1
TwoLanes == 2       \* Teach calls and wrapper invocations with two actors
TwoCalls == 2
ModeLanes == 2      \* and with lanes taught with any mode value
ModeCalls == 2

\* ------------------------------------------------------------- constants
Actors == {1, 2}
MainActors == {1}   \* main of the example has one: var a actor.Actor
Nil == 0            \* the nil channel: actor.quit of a zero Actor

\* type RW int; const ( Read RW = iota; Write )
Read == 0
Write == 1

\* the example's map: the keys and values an arbitrary caller uses
Keys == {1}
Vals == {1}
Zero == 0           \* the zero value of V = int: m[key] of an absent key
Unit == <<>>        \* struct{}{}: what Put and Del return

VARIABLES
    quit,       \* quit[a]: Actor.quit, Nil or the id of a chan struct{}
    closed,     \* the ids of the closed chan struct{}
    made,       \* made[a]: the ids of the chan struct{} made for actor a
    wg,         \* wg[a]: Actor.wg's counter
    actlk,      \* actlk[a]: Actor.actlk, [readers, writer]
    lanes,      \* one record per completed Teach call, in order
    calls,      \* one record per wrapper invocation, in order
    teaching,   \* the Teach calls in progress
    sd,         \* sd[a]: the Shutdown call's position, whether a Done released
                \* it from its sleep in wg.Wait(), and its history
    panicked,   \* the process died of a run-time panic
    m,          \* m[a]: the Map the acts taught to actor a close over
    overlap     \* history: the actors on which two Teach calls ran at once

vars == <<quit, closed, made, wg, actlk, lanes, calls, teaching, sd, panicked, m, overlap>>

LaneIds == 1..Len(lanes)
CallIds == 1..Len(calls)

\* ------------------------------------------------------------- the acts
\* func (m Map[K, V]) Get(key K) V { return m[key] }
Get(mp, key) == IF key \in DOMAIN mp THEN mp[key] ELSE Zero

\* func (m Map[K, V]) Del(key K) { delete(m, key) }
Del(mp, key) == [k \in DOMAIN mp \ {key} |-> mp[k]]

\* func (m Map[K, V]) Put(kv KeyVal[K, V]) { m[kv.Key] = kv.Val }
Put(mp, kv) == [k \in DOMAIN mp \cup {kv.Key} |-> IF k = kv.Key THEN kv.Val ELSE mp[k]]

\* the inputs a caller passes to the wrapper of an act
Inputs(act) ==
    IF act = "Put" THEN [Key : Keys, Val : Vals] ELSE Keys

\* o := act(s.I): the output, and the map afterwards
ActOut(act, mp, i) == IF act = "Get" THEN Get(mp, i) ELSE Unit

ActMap(act, mp, i) ==
    CASE act = "Get" -> mp
      [] act = "Put" -> Put(mp, i)
      [] act = "Del" -> Del(mp, i)

\* the acts that write the map: m[kv.Key] = kv.Val, delete(m, key)
Mutates(act) == act \in {"Put", "Del"}

\* (As Shared, with RLock chosen for every mode.)
SharedAlways(rw) == TRUE

\* (As Shared, with Lock for case Write and RLock as the default.)
SharedUnlessWrite(rw) == rw # Write

\* (As Shared, with Lock chosen for every mode.)
SharedNever(rw) == FALSE

\* ------------------------------------------------------- lock selection
\* switch rw { case Read: RLock/RUnlock; case Write: fallthrough; default: Lock/Unlock }
Shared(rw) == rw = Read

\* ------------------------------------------------------------------ Init
\* var a actor.Actor; m := make(Map[int, int])
Init ==
    /\ quit = [a \in Actors |-> Nil]
    /\ closed = {}
    /\ made = [a \in Actors |-> {}]
    /\ wg = [a \in Actors |-> 0]
    /\ actlk = [a \in Actors |-> [readers |-> 0, writer |-> FALSE]]
    /\ lanes = <<>>
    /\ calls = <<>>
    /\ teaching = <<>>
    /\ sd = [a \in Actors |-> [pc |-> "idle", calls |-> 0, returns |-> 0, woke |-> FALSE]]
    /\ panicked = FALSE
    /\ m = [a \in Actors |-> <<>>]
    /\ overlap = {}

\* --------------------------------------------------------------- helpers
\* (As ActorOf, with the lock, the counter and the signal kept in variables
\* of the package: those of the actor that was taught first.)
ActorOfFirst(l) == lanes[1].actor

\* the *Actor the closures of lane l hold
ActorOf(l) == lanes[l].actor

SetLane(l, r) == [lanes EXCEPT ![l] = r]
SetCall(c, r) == [calls EXCEPT ![c] = r]

\* (As NeedsInit, with the test left out: every Teach makes a channel.)
NeedsInitAlways(q) == TRUE

\* if actor.quit == nil
NeedsInit(q) == q = Nil

\* make(chan struct{}): a channel that did not exist
Fresh == Cardinality(UNION {made[a] : a \in Actors}) + 1

\* (As Receiving, with a request taken while the one before it awaits lock().)
ReceivingEarly(ln) == ln.pc \in {"listen", "lock"}

\* case s := <-c: the dispatcher takes a request only at its select
Receiving(ln) == ln.pc = "listen"

\* (As AfterRecv, with the reply sent at once and the act not run.)
AfterRecvReply == "reply"

\* (As AfterRecv, with the request passed to a goroutine of its own and
\* the dispatcher back at its select.)
AfterRecvListen == "listen"

\* (As AfterRecv, with lock() left out: the act runs unguarded.)
AfterRecvAct == "act"

\* what the dispatcher does with a request it received: lock(), first
AfterRecv == "lock"

\* (As Add, with the dispatcher not counted.)
AddForgotten(n) == n

\* actor.wg.Add(1)
Add(n) == n + 1

\* (As Done, with the counter left as it is.)
DoneForgotten(n) == n

\* defer actor.wg.Done()
Done(n) == n - 1

\* (As WaitDone, with no wait.)
WaitDoneNoWait(n) == TRUE

\* a.wg.Wait() returns when the counter is zero
WaitDone(n) == n = 0

\* (As Close, with the close of a closed channel skipped.)
CloseOnce(q, cl) == [closed |-> cl \cup {q}, panic |-> FALSE]

\* close(a.quit): the close of a closed channel is a run-time panic
Close(q, cl) ==
    IF q \in cl THEN [closed |-> cl, panic |-> TRUE]
                ELSE [closed |-> cl \cup {q}, panic |-> FALSE]

\* (As OchanCap, for make(chan O), as the first revision had it: no room.)
OchanCapNone == 0

\* make(chan O, 1): the capacity of the response channel
OchanCap == 1

\* (As NewOchan, with one channel made by Teach and used by every call:
\* it may hold the response of an earlier call.)
UsedOchan == <<Zero>>

\* make(chan O, 1): the response channel, empty
NewOchan == <<>>

\* (As Dropped, with no quit case in the select: the goroutine goes on
\* waiting to send.)
DroppedStays(r) == r

\* (As Dropped, with the zero value sent to the response channel.)
DroppedReports(r) == [r EXCEPT !.fpc = "dropped", !.ochan = <<Zero>>, !.nw = 1]

\* case <-actor.quit: of the forwarding goroutine, whose body is empty: the
\* goroutine ends and the call's record keeps what it held
Dropped(r) == [r EXCEPT !.fpc = "dropped"]

\* the lane Teach creates: c := make(chan ...), and the goroutine running
\* action(actor, act, rw, c), which is at its select waiting on c and on q,
\* the channel it read from actor.quit
\* (History: recvd and execd are the requests the lane received and ran, at
\* the number of Shutdown calls of the actor that had returned when the lane
\* was registered.)
NewLane(a, act, rw, q) ==
    [actor |-> a, act |-> act, rw |-> rw, pc |-> "listen", cur |-> 0,
     sig |-> q, out |-> Unit, recvd |-> <<>>, execd |-> <<>>,
     at |-> sd[a].returns]

\* the responses the caller has read so far
ReadSoFar == {c \in CallIds : calls[c].got # <<>>}

\* a Shutdown of actor a that closed its signal has returned
Down(a) == sd[a].pc = "idle" /\ quit[a] \in closed

\* ----------------------------------------------------------------- Teach
\* actor.wg.Add(1) after the Done of the last dispatcher released the
\* Shutdown that was parked in a.wg.Wait(), and before Wait has returned:
\* an Add that lands while Done still counts the waiter panics ("WaitGroup
\* misuse: Add called concurrently with Wait"); one that lands later raises
\* the counter, which Wait finds when it runs again (ShutdownReturn).
AddMisuse(a) == sd[a].pc = "wait" /\ sd[a].woke /\ wg[a] = 0

\* whether actor.wg.Add(1) panics
AddPanics(a) == IF AddMisuse(a) THEN BOOLEAN ELSE {FALSE}

\* Teach, its lines 191-204 as one step: what a call does that no other Teach
\* and no Shutdown of the same actor interferes with.  It does not look at
\* whether Shutdown was called: on an actor whose signal is closed it keeps
\* the closed signal, and the dispatcher it starts finds its quit case ready.
Teach(a, act, rw, maxLanes) ==
    /\ ~panicked
    /\ Len(lanes) + Len(teaching) < maxLanes
    /\ IF NeedsInit(quit[a])
         THEN /\ quit' = [quit EXCEPT ![a] = Fresh]
              /\ made' = [made EXCEPT ![a] = @ \cup {Fresh}]
         ELSE UNCHANGED <<quit, made>>
    /\ wg' = [wg EXCEPT ![a] = Add(@)]
    /\ \E p \in AddPanics(a) :
          /\ panicked' = p
          /\ lanes' = IF p THEN lanes
                            ELSE Append(lanes, NewLane(a, act, rw, quit'[a]))
    /\ UNCHANGED <<closed, actlk, calls, teaching, sd, m, overlap>>

\* func Reader(actor, act) { return Teach(actor, act, Read) }
Reader(a, act, maxLanes) == Teach(a, act, Read, maxLanes)

\* func Writer(actor, act) { return Teach(actor, act, Write) }
Writer(a, act, maxLanes) == Teach(a, act, Write, maxLanes)

\* Teach called while another Teach or a Shutdown of the same actor may be
\* running (a data race on actor.quit), step by step.  First the read of
\* actor.quit at line 191: the call goes on to line 192 when it read nil, to
\* line 195 when it did not.
TeachCheck(a, act, rw, maxLanes) ==
    /\ ~panicked
    /\ Len(lanes) + Len(teaching) < maxLanes
    /\ teaching' = Append(teaching,
           [actor |-> a, act |-> act, rw |-> rw,
            pc |-> IF NeedsInit(quit[a]) THEN "make" ELSE "add"])
    /\ overlap' = IF \E i \in 1..Len(teaching) : teaching[i].actor = a
                    THEN overlap \cup {a} ELSE overlap
    /\ UNCHANGED <<quit, closed, made, wg, actlk, lanes, calls, sd, panicked, m>>

\* actor.quit = make(chan struct{}), line 192.  The write is not
\* synchronised with the goroutines of the actor that are at their select
\* and have not acted since they got there: each of them evaluated
\* actor.quit before the write or evaluates it after (S, T: those that do it
\* after).
TeachMake(t) ==
    /\ ~panicked
    /\ t \in 1..Len(teaching)
    /\ teaching[t].pc = "make"
    /\ LET a == teaching[t].actor
           q == Fresh
       IN
        /\ quit' = [quit EXCEPT ![a] = q]
        /\ made' = [made EXCEPT ![a] = @ \cup {q}]
        /\ \E S \in SUBSET {l \in LaneIds : lanes[l].actor = a /\ lanes[l].pc = "listen"},
              T \in SUBSET {c \in CallIds : lanes[calls[c].lane].actor = a
                                            /\ calls[c].fpc = "wait"} :
              /\ lanes' = [l \in LaneIds |->
                              IF l \in S THEN [lanes[l] EXCEPT !.sig = q] ELSE lanes[l]]
              /\ calls' = [c \in CallIds |->
                              IF c \in T THEN [calls[c] EXCEPT !.sig = q] ELSE calls[c]]
    /\ teaching' = [teaching EXCEPT ![t].pc = "add"]
    /\ UNCHANGED <<closed, wg, actlk, sd, panicked, m, overlap>>

\* The rest of Teach, lines 195-204: c := make(...), actor.wg.Add(1) and the
\* go statement; the dispatcher it starts reads actor.quit at its select.
\* An Add that panics has raised the counter and starts no dispatcher.
TeachRest(t) ==
    /\ ~panicked
    /\ t \in 1..Len(teaching)
    /\ teaching[t].pc = "add"
    /\ LET r == teaching[t]
           a == r.actor
       IN
        /\ wg' = [wg EXCEPT ![a] = Add(@)]
        /\ \E p \in AddPanics(a) :
              /\ panicked' = p
              /\ lanes' = IF p THEN lanes
                                ELSE Append(lanes, NewLane(a, r.act, r.rw, quit[a]))
    /\ teaching' = [i \in 1..(Len(teaching) - 1) |->
                        IF i < t THEN teaching[i] ELSE teaching[i + 1]]
    /\ UNCHANGED <<quit, closed, made, actlk, calls, sd, m, overlap>>

\* ------------------------------------------------------ the call wrapper
\* func(i I) <-chan O: ochan := make(chan O, 1); go func() {...}(); return ochan.
\* The forwarding goroutine is at its select, waiting on c and on the channel
\* it read from actor.quit.
\* (History: nw counts the writes to ochan, got is what the caller read from it,
\* res what the act returned, before the responses read before this call, at
\* the number of Shutdown calls of the actor that had returned when the call
\* was made, down whether a Shutdown that closed the signal had returned
\* then, scr the call's place in the caller's script, 0 when it has none.)
\* (As Invoke, with the select run by the caller, not in a goroutine: the
\* wrapper returns when one of its cases is ready.)
InvokeWaits(l, i, scr) ==
    /\ ~panicked
    /\ l \in LaneIds
    /\ Receiving(lanes[l]) \/ quit[ActorOf(l)] \in closed
    /\ calls' = Append(calls,
           [lane |-> l, in |-> i, fpc |-> "wait", sig |-> quit[ActorOf(l)],
            ochan |-> NewOchan, nw |-> 0, got |-> <<>>, res |-> <<>>,
            before |-> ReadSoFar, at |-> sd[ActorOf(l)].returns,
            down |-> Down(ActorOf(l)), scr |-> scr])
    /\ UNCHANGED <<quit, closed, made, wg, actlk, lanes, teaching, sd, panicked, m, overlap>>

Invoke(l, i, scr) ==
    /\ ~panicked
    /\ l \in LaneIds
    /\ calls' = Append(calls,
           [lane |-> l, in |-> i, fpc |-> "wait", sig |-> quit[ActorOf(l)],
            ochan |-> NewOchan, nw |-> 0, got |-> <<>>, res |-> <<>>,
            before |-> ReadSoFar, at |-> sd[ActorOf(l)].returns,
            down |-> Down(ActorOf(l)), scr |-> scr])
    /\ UNCHANGED <<quit, closed, made, wg, actlk, lanes, teaching, sd, panicked, m, overlap>>

\* a call of an arbitrary caller
Call(l, i, maxCalls) ==
    /\ Len(calls) < maxCalls
    /\ Invoke(l, i, 0)

\* case c <- struct{I; Ochan}{i, ochan} meets case s := <-c: the channel is
\* unbuffered, so the send and the receive are one step, which the select
\* that comes second takes when it finds the other goroutine parked on c.
\* A select one of whose cases is ready does not park, and close(quit)
\* takes every goroutine parked on quit out of its select; so no hand-off
\* follows the close of the channel both wait on.
Handoff(c) ==
    /\ ~panicked
    /\ c \in CallIds
    /\ calls[c].fpc = "wait"
    /\ LET l == calls[c].lane IN
        /\ Receiving(lanes[l])
        /\ calls[c].sig \notin closed \/ lanes[l].sig \notin closed
        /\ lanes' = SetLane(l, [lanes[l] EXCEPT !.pc = AfterRecv, !.cur = c,
                                                !.recvd = Append(@, c)])
    /\ calls' = SetCall(c, [calls[c] EXCEPT !.fpc = "sent"])
    /\ UNCHANGED <<quit, closed, made, wg, actlk, teaching, sd, panicked, m, overlap>>

\* case <-actor.quit: of the forwarding goroutine
FwdQuit(c) ==
    /\ ~panicked
    /\ c \in CallIds
    /\ calls[c].fpc = "wait"
    /\ calls[c].sig \in closed
    /\ calls' = SetCall(c, Dropped(calls[c]))
    /\ UNCHANGED <<quit, closed, made, wg, actlk, lanes, teaching, sd, panicked, m, overlap>>

\* <-get(i): the caller reads the response channel
ReadResponse(c) ==
    /\ ~panicked
    /\ c \in CallIds
    /\ calls[c].ochan # <<>>
    /\ calls' = SetCall(c, [calls[c] EXCEPT !.got = <<Head(calls[c].ochan)>>,
                                            !.ochan = Tail(@)])
    /\ UNCHANGED <<quit, closed, made, wg, actlk, lanes, teaching, sd, panicked, m, overlap>>

\* --------------------------------------------------- the dispatcher loop
\* The Done of a dispatcher that takes the counter to zero while Shutdown is
\* in a.wg.Wait(): Wait either found the counter above zero before this
\* Done, slept, and is woken by it, or has not loaded the counter yet and
\* will find it at zero.
Wakes(a, n) ==
    IF sd[a].pc = "wait" /\ ~sd[a].woke /\ n = 0 THEN BOOLEAN ELSE {sd[a].woke}

\* case <-actor.quit: return, and the deferred actor.wg.Done(), which
\* releases the Shutdown that waits when it takes the counter to zero
LaneQuit(l) ==
    /\ ~panicked
    /\ l \in LaneIds
    /\ lanes[l].pc = "listen"
    /\ lanes[l].sig \in closed
    /\ lanes' = SetLane(l, [lanes[l] EXCEPT !.pc = "done"])
    /\ wg' = [wg EXCEPT ![ActorOf(l)] = Done(@)]
    /\ \E w \in Wakes(ActorOf(l), wg'[ActorOf(l)]) :
          sd' = [sd EXCEPT ![ActorOf(l)].woke = w]
    /\ UNCHANGED <<quit, closed, made, actlk, calls, teaching, panicked, m, overlap>>

\* sync.RWMutex.RLock returns when no writer holds the lock
CanRLock(lk) == ~lk.writer

\* sync.RWMutex.Lock returns when neither a writer nor a reader holds it.
\* (That a waiting Lock keeps later RLock calls out is left out: it only
\* takes behaviours away.)
CanLock(lk) == ~lk.writer /\ lk.readers = 0

\* lock(): actor.actlk.RLock or actor.actlk.Lock, as the switch chose
LockStep(l) ==
    /\ ~panicked
    /\ l \in LaneIds
    /\ lanes[l].pc = "lock"
    /\ LET a == ActorOf(l)
           lk == actlk[a] IN
        IF Shared(lanes[l].rw)
          THEN /\ CanRLock(lk)
               /\ actlk' = [actlk EXCEPT ![a].readers = @ + 1]
          ELSE /\ CanLock(lk)
               /\ actlk' = [actlk EXCEPT ![a].writer = TRUE]
    /\ lanes' = SetLane(l, [lanes[l] EXCEPT !.pc = "act"])
    /\ UNCHANGED <<quit, closed, made, wg, calls, teaching, sd, panicked, m, overlap>>

\* The acts of lane l and of another lane of its actor run at the same time
\* on the map, and one of the two writes it: a data race on a Go map (k: the
\* other lanes that are past lock() and have not run their act).
Racers(l) ==
    {k \in LaneIds \ {l} :
        /\ lanes[k].actor = lanes[l].actor
        /\ lanes[k].pc = "act"
        /\ Mutates(lanes[l].act) \/ Mutates(lanes[k].act)}

\* What the act of lane l may return on input i: its result on the map; in a
\* data race also its result on the map as a racing act leaves it, or the
\* zero value of a read that finds the map half written.
Outs(l, i) ==
    LET a == lanes[l].actor
        act == lanes[l].act IN
    {ActOut(act, m[a], i)}
      \cup {ActOut(act, ActMap(lanes[k].act, m[a], calls[lanes[k].cur].in), i) : k \in Racers(l)}
      \cup (IF Racers(l) # {} /\ act = "Get" THEN {Zero} ELSE {})

\* o := act(s.I).  In a data race the run time may also stop the process
\* (fatal error: concurrent map read and map write).
ActStep(l) ==
    /\ ~panicked
    /\ l \in LaneIds
    /\ lanes[l].pc = "act"
    /\ LET c == lanes[l].cur
           i == calls[c].in
           a == lanes[l].actor IN
        \E fatal \in (IF Racers(l) # {} THEN BOOLEAN ELSE {FALSE}) :
            IF fatal
              THEN /\ panicked' = TRUE
                   /\ UNCHANGED <<m, lanes, calls>>
              ELSE \E o \in Outs(l, i) :
                   /\ m' = [m EXCEPT ![a] = ActMap(lanes[l].act, @, i)]
                   /\ lanes' = SetLane(l, [lanes[l] EXCEPT !.pc = "unlock", !.out = o,
                                                           !.execd = Append(@, c)])
                   /\ calls' = SetCall(c, [calls[c] EXCEPT !.res = <<o>>])
                   /\ UNCHANGED panicked
    /\ UNCHANGED <<quit, closed, made, wg, actlk, teaching, sd, overlap>>

\* (As UnlockStep, with unlock() left out.)
UnlockStepForgets(l) ==
    /\ ~panicked
    /\ l \in LaneIds
    /\ lanes[l].pc = "unlock"
    /\ lanes' = SetLane(l, [lanes[l] EXCEPT !.pc = "reply"])
    /\ UNCHANGED <<quit, closed, made, wg, actlk, calls, teaching, sd, panicked, m, overlap>>

\* unlock(): actor.actlk.RUnlock or actor.actlk.Unlock
UnlockStep(l) ==
    /\ ~panicked
    /\ l \in LaneIds
    /\ lanes[l].pc = "unlock"
    /\ LET a == ActorOf(l) IN
        actlk' = IF Shared(lanes[l].rw)
                   THEN [actlk EXCEPT ![a].readers = @ - 1]
                   ELSE [actlk EXCEPT ![a].writer = FALSE]
    /\ lanes' = SetLane(l, [lanes[l] EXCEPT !.pc = "reply"])
    /\ UNCHANGED <<quit, closed, made, wg, calls, teaching, sd, panicked, m, overlap>>

\* s.Ochan <- o, which blocks while the channel is full; then the next
\* iteration of the for loop, back at the select (actor.quit is read again)
Reply(l) ==
    /\ ~panicked
    /\ l \in LaneIds
    /\ lanes[l].pc = "reply"
    /\ LET c == lanes[l].cur IN
        /\ Len(calls[c].ochan) < OchanCap
        /\ calls' = SetCall(c, [calls[c] EXCEPT !.ochan = Append(@, lanes[l].out),
                                                !.nw = @ + 1])
    /\ lanes' = SetLane(l, [lanes[l] EXCEPT !.pc = "listen", !.cur = 0, !.out = Unit,
                                            !.sig = quit[ActorOf(l)]])
    /\ UNCHANGED <<quit, closed, made, wg, actlk, teaching, sd, panicked, m, overlap>>

\* (As ShutdownCall, with the signal made, and closed, when there is none.)
ShutdownCallMakes(a, maxShut) ==
    /\ ~panicked
    /\ sd[a].pc = "idle"
    /\ sd[a].calls < maxShut
    /\ sd' = [sd EXCEPT ![a].pc = "wait", ![a].calls = @ + 1]
    /\ LET q == IF quit[a] = Nil THEN Fresh ELSE quit[a] IN
        /\ quit' = [quit EXCEPT ![a] = q]
        /\ made' = [made EXCEPT ![a] = @ \cup {q}]
        /\ closed' = Close(q, closed).closed
        /\ panicked' = Close(q, closed).panic
    /\ UNCHANGED <<wg, actlk, lanes, calls, teaching, m, overlap>>

\* -------------------------------------------------------------- Shutdown
\* if a.quit != nil { close(a.quit) }: close of a closed channel panics
ShutdownCall(a, maxShut) ==
    /\ ~panicked
    /\ sd[a].pc = "idle"
    /\ sd[a].calls < maxShut
    /\ sd' = [sd EXCEPT ![a].pc = "wait", ![a].calls = @ + 1]
    /\ IF quit[a] # Nil
         THEN /\ closed' = Close(quit[a], closed).closed
              /\ panicked' = Close(quit[a], closed).panic
         ELSE UNCHANGED <<closed, panicked>>
    /\ UNCHANGED <<quit, made, wg, actlk, lanes, calls, teaching, m, overlap>>

\* a.wg.Wait() returns: when it finds the counter at zero; when it slept,
\* after the Done that took the counter to zero woke it, and then it panics
\* ("WaitGroup is reused before previous Wait has returned") if an Add has
\* raised the counter meanwhile
ShutdownReturn(a) ==
    /\ ~panicked
    /\ sd[a].pc = "wait"
    /\ sd[a].woke \/ WaitDone(wg[a])
    /\ IF sd[a].woke /\ wg[a] # 0
         THEN panicked' = TRUE /\ UNCHANGED sd
         ELSE /\ sd' = [sd EXCEPT ![a].pc = "idle", ![a].returns = @ + 1,
                                  ![a].woke = FALSE]
              /\ UNCHANGED panicked
    /\ UNCHANGED <<quit, closed, made, wg, actlk, lanes, calls, teaching, m, overlap>>

\* ------------------------------------------------------- specifications
\* the steps the goroutines of the package take to serve requests
Serve ==
    \/ \E c \in CallIds : Handoff(c)
    \/ \E l \in LaneIds : LockStep(l)
    \/ \E l \in LaneIds : ActStep(l)
    \/ \E l \in LaneIds : UnlockStep(l)
    \/ \E l \in LaneIds : Reply(l)

\* the steps of the goroutines the package starts and of wg.Wait()
Package ==
    \/ Serve
    \/ \E c \in CallIds : FwdQuit(c)
    \/ \E l \in LaneIds : LaneQuit(l)
    \/ \E a \in Actors : ShutdownReturn(a)

\* those, and the caller's reads of the response channels
Run == Package \/ \E c \in CallIds : ReadResponse(c)

\* "These Teach functions aren't parallel safe with each other or an
\* Actor.Shutdown call on the same *Actor": a caller that heeds the comment
\* starts a Teach of actor a only while no Shutdown and no Teach of it runs.
\* A Shutdown that has returned does not keep it from teaching again.
Apart(a) ==
    /\ sd[a].pc = "idle"
    /\ \A t \in 1..Len(teaching) : teaching[t].actor # a

\* An arbitrary caller: it registers readers of Get and writers of Put,
\* before and after Shutdown calls but not during one, invokes the wrappers
\* with any input, reads the responses it likes, and calls Shutdown.
ReaderActs == {"Get"}
WriterActs == {"Put"}

Caller(maxLanes, maxCalls, maxShut) ==
    \/ \E a \in MainActors, act \in ReaderActs : Apart(a) /\ Reader(a, act, maxLanes)
    \/ \E a \in MainActors, act \in WriterActs : Apart(a) /\ Writer(a, act, maxLanes)
    \/ \E l \in LaneIds : \E i \in Inputs(lanes[l].act) : Call(l, i, maxCalls)
    \/ \E a \in MainActors : ShutdownCall(a, maxShut)

\* the caller shuts the actor down once, at any moment
Next == Caller(MaxLanes, MaxCalls, 1) \/ Run

Spec == Init /\ [][Next]_vars

\* the caller calls Shutdown again and again, teaching and calling between
\* the calls, and leaves the responses unread
NextDown == Caller(DownLanes, DownCalls, MaxShutdowns) \/ Package

SpecDown == Init /\ [][NextDown]_vars

\* The calls of main on key 1: get, put and del are registered (part_000
\* lines 52-54); then put(KeyVal{1, -1}), put(KeyVal{1, 1}), del(1) and get(1)
\* are issued in that order (lines 64, 73, 74, 88).  main discards the
\* channels put and del return and reads the one of get; here the caller
\* reads the responses it likes, when it likes, so that a call may be issued
\* before or after the response of an earlier one was read.  Shutdown is
\* called at any moment.
Script ==
    << [act |-> "Put", in |-> [Key |-> 1, Val |-> -1]],
       [act |-> "Put", in |-> [Key |-> 1, Val |-> 1]],
       [act |-> "Del", in |-> 1],
       [act |-> "Get", in |-> 1] >>

ScriptTeach(a) ==
    /\ Apart(a)
    /\ \/ Len(lanes) = 0 /\ Reader(a, "Get", Len(Script))
       \/ Len(lanes) = 1 /\ Writer(a, "Put", Len(Script))
       \/ Len(lanes) = 2 /\ Writer(a, "Del", Len(Script))

Scripted == {c \in CallIds : calls[c].scr > 0}

ScriptCall(l) ==
    /\ Len(lanes) = 3
    /\ LET k == Cardinality(Scripted) + 1 IN
        /\ k <= Len(Script)
        /\ lanes[l].act = Script[k].act
        /\ Invoke(l, Script[k].in, k)

NextKV ==
    \/ \E a \in MainActors : ScriptTeach(a)
    \/ \E l \in LaneIds : ScriptCall(l)
    \/ \E a \in MainActors : ShutdownCall(a, MaxShutdowns)
    \/ Run

SpecKV == Init /\ [][NextKV]_vars

\* The calls of main on one key, here 5, when it is run to its end: after
\* put(KeyVal{5, -1}), put(KeyVal{5, 5}), del(5) and get(5), the last loop
\* (lines 97-106) issues put(KeyVal{5, v}), with v = 999, and get(5).  Between
\* the two loops main waits in wg.Wait() (line 94) until the goroutine of
\* line 84 has read the response of get(5); it reads no response of put or
\* del, while the caller here reads those it likes.  The value the last put
\* writes is 999 or another one.  main does not call Shutdown.
AtomicVals == {100, 999}

MainCalls(i, v) ==
    << [act |-> "Put", in |-> [Key |-> i, Val |-> -1]],
       [act |-> "Put", in |-> [Key |-> i, Val |-> i]],
       [act |-> "Del", in |-> i],
       [act |-> "Get", in |-> i],
       [act |-> "Put", in |-> [Key |-> i, Val |-> v]],
       [act |-> "Get", in |-> i] >>

AtomicCall(l, v) ==
    /\ Len(lanes) = 3
    /\ LET k == Cardinality(Scripted) + 1 IN
        /\ k <= Len(MainCalls(5, v))
        /\ k = 5 => \E c \in ReadSoFar : calls[c].scr = 4
        /\ lanes[l].act = MainCalls(5, v)[k].act
        /\ Invoke(l, MainCalls(5, v)[k].in, k)

NextAtomic ==
    \/ \E a \in MainActors : ScriptTeach(a)
    \/ \E l \in LaneIds, v \in AtomicVals : AtomicCall(l, v)
    \/ \E c \in CallIds : ReadResponse(c)
    \/ Serve

SpecAtomic == Init /\ [][NextAtomic]_vars

\* A program with two actors, each with a map of its own: writers are
\* taught to either, their wrappers invoked, the responses left unread, and
\* either is shut down, once.
NextTwo ==
    \/ \E a \in Actors, act \in WriterActs : Apart(a) /\ Writer(a, act, TwoLanes)
    \/ \E l \in LaneIds : \E i \in Inputs(lanes[l].act) : Call(l, i, TwoCalls)
    \/ \E a \in Actors : ShutdownCall(a, 1)
    \/ Package

SpecTwo == Init /\ [][NextTwo]_vars

\* Lanes taught through Teach itself, with any value of type RW (Read,
\* Write, or one that is neither), and through Reader and Writer; the act
\* is Get, which any mode suits, the responses are left unread, and the
\* actor is shut down once.
Modes == {Read, Write, Write + 1}

NextMode ==
    \/ \E a \in MainActors, rw \in Modes : Apart(a) /\ Teach(a, "Get", rw, ModeLanes)
    \/ \E a \in MainActors : Apart(a) /\ Reader(a, "Get", ModeLanes)
    \/ \E a \in MainActors : Apart(a) /\ Writer(a, "Get", ModeLanes)
    \/ \E l \in LaneIds : \E i \in Inputs(lanes[l].act) : Call(l, i, ModeCalls)
    \/ \E a \in MainActors : ShutdownCall(a, 1)
    \/ Package

SpecMode == Init /\ [][NextMode]_vars

\* Teach calls that are not kept apart: two of them, or one and a Shutdown,
\* may run at once on the same actor, which the comments rule out and the
\* code does not prevent.
NextRace ==
    \/ \E a \in MainActors, act \in ReaderActs : TeachCheck(a, act, Read, RaceLanes)
    \/ \E a \in MainActors, act \in WriterActs : TeachCheck(a, act, Write, RaceLanes)
    \/ \E t \in 1..Len(teaching) : TeachMake(t)
    \/ \E t \in 1..Len(teaching) : TeachRest(t)
    \/ \E l \in LaneIds : \E i \in Inputs(lanes[l].act) : Call(l, i, RaceCalls)
    \/ \E a \in MainActors : ShutdownCall(a, 1)
    \/ Package

SpecRace == Init /\ [][NextRace]_vars

\* The scheduler does not stop while a goroutine of the package can take a
\* step (a dispatcher that holds a request, a select one of whose cases is
\* ready, a wg.Wait() whose counter is zero).  The caller owes nothing: it
\* may stop calling and reading at any moment.
Fairness == WF_vars(Package)

NextLive == Caller(LiveLanes, LiveCalls, MaxShutdowns) \/ Run

FairSpec == Init /\ [][NextLive]_vars /\ Fairness

\* ================================================================ claims
\* the lanes of actor a
LanesOf(a) == {l \in LaneIds : lanes[l].actor = a}

\* the calls made through the wrappers of actor a
CallsOf(a) == {c \in CallIds : lanes[calls[c].lane].actor = a}

\* lane l is between the return of lock() and the call of unlock(): where
\* act(s.I) runs
InAct(l) == lanes[l].pc \in {"act", "unlock"}

\* position of call c in the sequence q, 0 when it is not there
Pos(q, c) == IF \E p \in 1..Len(q) : q[p] = c
               THEN CHOOSE p \in 1..Len(q) : q[p] = c ELSE 0

\* C1: while a lane of exclusive mode is executing its act, no other lane
\* of the same actor is executing its act.
C1_Exclusion ==
    \A l1 \in LaneIds, l2 \in LaneIds :
        (/\ l1 # l2
         /\ lanes[l1].actor = lanes[l2].actor
         /\ lanes[l1].rw # Read
         /\ InAct(l1))
        => ~InAct(l2)

\* C1, witness: an exclusive lane executes its act while another lane of
\* the actor holds a request and waits in lock().
C1_Witness ==
    \E l1 \in LaneIds, l2 \in LaneIds :
        /\ l1 # l2
        /\ lanes[l1].actor = lanes[l2].actor
        /\ lanes[l1].rw # Read
        /\ lanes[l1].pc = "act"
        /\ lanes[l2].pc = "lock"

\* C2 as stated: of two calls made through the same Writer wrapper, the
\* second before the response of the first was read, the act of the first
\* never executes after the act of the second.
C2_SubmissionOrder ==
    \A i \in CallIds, j \in CallIds :
        (/\ i < j
         /\ calls[i].lane = calls[j].lane
         /\ lanes[calls[i].lane].rw = Write
         /\ i \notin calls[j].before
         /\ calls[i].res # <<>>
         /\ calls[j].res # <<>>)
        => Pos(lanes[calls[i].lane].execd, i) < Pos(lanes[calls[j].lane].execd, j)

\* C2, amended: a lane executes the acts in the order in which its
\* dispatcher received the requests (the executed calls are the first of the
\* received ones, in the same order, each once), and a call made after the
\* response of an earlier call of the lane was read executes after it.
C2_ReceiveOrder ==
    \A l \in LaneIds :
        /\ Len(lanes[l].execd) <= Len(lanes[l].recvd)
        /\ \A p \in 1..Len(lanes[l].execd) : lanes[l].execd[p] = lanes[l].recvd[p]
        /\ \A p \in 1..Len(lanes[l].recvd), q \in 1..Len(lanes[l].recvd) :
              p < q => /\ lanes[l].recvd[p] # lanes[l].recvd[q]
                       /\ lanes[l].recvd[q] \notin calls[lanes[l].recvd[p]].before

\* C2, witness: a Writer lane has executed two calls, the later call first.
C2_Witness ==
    \E l \in LaneIds :
        /\ lanes[l].rw = Write
        /\ Len(lanes[l].execd) = 2
        /\ lanes[l].execd[1] > lanes[l].execd[2]

\* the lanes of actor a that were registered before the latest return of a
\* Shutdown of a
TaughtBeforeReturn(a) == {l \in LanesOf(a) : lanes[l].at < sd[a].returns}

\* C3 as stated: once Shutdown has returned, every dispatcher of the actor
\* has ended and every request handed to a dispatcher has had its act
\* executed and its result written to its response channel.
C3_Barrier ==
    \A a \in Actors :
        sd[a].returns >= 1 =>
            /\ \A l \in LanesOf(a) : lanes[l].pc = "done"
            /\ \A c \in CallsOf(a) :
                  calls[c].fpc = "sent" => /\ calls[c].res # <<>>
                                            /\ calls[c].nw = 1
                                            /\ c \in {lanes[calls[c].lane].execd[p] :
                                                        p \in 1..Len(lanes[calls[c].lane].execd)}

\* C3, amended: once Shutdown has returned, every dispatcher of a lane that
\* was registered before the return has ended, and every request handed to
\* such a dispatcher has had its act executed and its result written to its
\* response channel.  (A lane registered after the return has a dispatcher
\* of its own, which the Shutdown that returned did not wait for.)
C3_BarrierForTaughtBefore ==
    \A a \in Actors :
        \A l \in TaughtBeforeReturn(a) :
            /\ lanes[l].pc = "done"
            /\ \A c \in CallsOf(a) :
                  (calls[c].lane = l /\ calls[c].fpc = "sent")
                      => /\ calls[c].res # <<>>
                         /\ calls[c].nw = 1
                         /\ c \in {lanes[l].execd[p] : p \in 1..Len(lanes[l].execd)}

\* C3, witness: Shutdown has returned on an actor with a lane that was
\* handed a request, and a lane registered after the return is listening.
C3_Witness ==
    \E a \in Actors, k \in LaneIds :
        /\ sd[a].returns >= 1
        /\ \E c \in CallsOf(a) :
              calls[c].fpc = "sent" /\ calls[c].lane \in TaughtBeforeReturn(a)
        /\ lanes[k].actor = a
        /\ lanes[k].at >= 1
        /\ lanes[k].pc = "listen"

\* C7 as stated: once Shutdown has returned, the actor's cancellation signal
\* exists and has fired, also on an actor on which no lane was registered.
C7_SignalCreated ==
    \A a \in Actors :
        sd[a].returns >= 1 => quit[a] # Nil /\ quit[a] \in closed

\* C7, amended: Shutdown creates no signal.  No step of a Shutdown changes
\* actor.quit; on an actor on which no lane was registered it returns with
\* the actor as it was, uninitialised (quit is nil, no channel was made or
\* closed); the one signal of an actor is made by its first Teach, before
\* or after a Shutdown, and a signal that is closed was closed by a
\* Shutdown called when a lane was registered.
C7_NoSignalCreated ==
    /\ [][\A a \in Actors :
            sd'[a] # sd[a] => quit'[a] = quit[a] /\ made'[a] = made[a]]_vars
    /\ [](\A a \in Actors :
            IF LanesOf(a) = {}
              THEN quit[a] = Nil /\ made[a] = {}
              ELSE quit[a] \in made[a] /\ Cardinality(made[a]) = 1)
    /\ [](\A a \in Actors :
            quit[a] \in closed => sd[a].calls >= 1 /\ LanesOf(a) # {})

\* C7, witness: Shutdown has returned on an actor without lanes.
C7_Witness ==
    \E a \in Actors : sd[a].returns >= 1 /\ LanesOf(a) = {}

\* C8 as stated: on any actor, a second call of Shutdown, made after the
\* first has returned, ends in a panic.
C8_SecondPanics ==
    \A a \in Actors : sd[a].calls >= 2 => panicked

\* C8, amended: a call of Shutdown panics exactly when the signal of the
\* actor is closed already, which an earlier Shutdown did that was called
\* when a lane was registered; the call that panics does not return.  On an
\* actor without lanes (quit is nil), and on one whose lanes were registered
\* after the earlier calls returned, it closes nothing twice and does not
\* panic.
C8_SecondPanicsIfClosed ==
    /\ [][\A a \in Actors :
            sd'[a].calls = sd[a].calls + 1 => (panicked' <=> quit[a] \in closed)]_vars
    /\ [](panicked =>
            \E a \in Actors : /\ sd[a].pc = "wait"
                              /\ sd[a].calls >= 2
                              /\ sd[a].returns < sd[a].calls
                              /\ quit[a] \in closed
                              /\ LanesOf(a) # {})
    /\ [](\A a \in Actors :
            (LanesOf(a) = {} /\ sd[a].pc = "idle") => sd[a].returns = sd[a].calls)

\* C8, witness: the second Shutdown of an actor with a lane has panicked.
C8_Witness ==
    \E a \in Actors : sd[a].calls = 2 /\ LanesOf(a) # {} /\ panicked

\* C9: a call whose forwarding goroutine took the quit case was not handed
\* to the lane: its act is not invoked on the input, nothing is written to
\* its response channel and the caller reads nothing from it.
C9_DroppedSilently ==
    \A c \in CallIds :
        calls[c].fpc = "dropped" =>
            /\ calls[c].ochan = <<>>
            /\ calls[c].nw = 0
            /\ calls[c].got = <<>>
            /\ calls[c].res = <<>>
            /\ \A l \in LaneIds : lanes[l].cur # c /\ Pos(lanes[l].recvd, c) = 0

\* C9, witness: a call was dropped while its lane's dispatcher had not ended.
C9_Witness ==
    \E c \in CallIds :
        /\ calls[c].fpc = "dropped"
        /\ lanes[calls[c].lane].pc # "done"

\* the goroutines of actor a that are at a select on actor.quit, each with
\* the channel it waits on
Waiting(a) ==
    {lanes[l].sig : l \in {k \in LanesOf(a) : lanes[k].pc = "listen"}}
      \cup {calls[c].sig : c \in {k \in CallsOf(a) : calls[k].fpc = "wait"}}

\* C6 as stated: however the first uses of an actor interleave, one
\* cancellation signal is made for it, and every dispatcher and forwarding
\* goroutine of the actor waits on that signal, the one Shutdown closes.
C6_ExecuteOnce ==
    \A a \in Actors :
        /\ Cardinality(made[a]) <= 1
        /\ \A q \in Waiting(a) : q = quit[a]

\* C6, amended: when no two Teach calls of an actor run at the same time
\* (what the comment of Teach asks of the caller), one cancellation signal is
\* made for it, by the first Teach, and every dispatcher and forwarding
\* goroutine of the actor waits on it; there is no guard that makes
\* concurrent first uses safe.
C6_OnceIfSequential ==
    \A a \in Actors :
        a \notin overlap =>
            /\ Cardinality(made[a]) <= 1
            /\ (LanesOf(a) # {} => quit[a] \in made[a])
            /\ \A q \in Waiting(a) : q = quit[a]

\* C6, witness: two Teach calls of an actor were made one after the other,
\* and a forwarding goroutine and a dispatcher wait on its signal.
C6_Witness ==
    \E a \in Actors :
        /\ a \notin overlap
        /\ Cardinality(LanesOf(a)) >= 2
        /\ \E l \in LanesOf(a) : lanes[l].pc = "listen"
        /\ \E c \in CallsOf(a) : calls[c].fpc = "wait"

\* the act of call c has started: its lane holds the lock for it, or is past it
Started(c) ==
    \/ calls[c].res # <<>>
    \/ \E l \in LaneIds : lanes[l].cur = c /\ lanes[l].pc \in {"act", "unlock", "reply"}

\* the act of call c has returned
Executed(c) == calls[c].res # <<>>

\* call c is a call of act with input i
IsCall(c, act, i) == lanes[calls[c].lane].act = act /\ calls[c].in = i

\* C10: when call B is made after the response of call A was read, the act of
\* A has returned before the act of B starts, on the same lane or on another
\* one.  And when Put(1, -1), Put(1, 1), Del(1) and Get(1) are made in that
\* order, each after the response of the one before was read, with no other
\* Put, the Get returns the zero value.
C10_RealTimeOrder ==
    /\ \A A \in CallIds, B \in CallIds :
          (A \in calls[B].before /\ Started(B)) => Executed(A)
    /\ \A G \in {c \in CallIds : IsCall(c, "Get", 1) /\ calls[c].got # <<>>} :
       \A D \in {c \in calls[G].before : IsCall(c, "Del", 1)} :
       \A P2 \in {c \in calls[D].before : IsCall(c, "Put", [Key |-> 1, Val |-> 1])} :
       \A P1 \in {c \in calls[P2].before : IsCall(c, "Put", [Key |-> 1, Val |-> -1])} :
          (\A c \in CallIds : lanes[calls[c].lane].act = "Put" => c \in {P1, P2})
          => calls[G].got = <<Zero>>

\* C10, witness: the four calls were made each after the response of the one
\* before was read, the Get has been answered and its response read.
C10_Witness ==
    \E G \in CallIds :
        /\ calls[G].scr = Len(Script)
        /\ calls[G].got # <<>>
        /\ \A c \in Scripted \ {G} :
              \E d \in Scripted : calls[d].scr = calls[c].scr + 1 /\ c \in calls[d].before

\* C4: a request that was handed to a dispatcher gets one value written to
\* its response channel, the act's result, whatever Shutdown does meanwhile
\* (no Shutdown panics while a dispatcher holds a request); no response
\* channel is written twice.
C4_Answered ==
    /\ \A c \in 1..LiveCalls :
          (c \in CallIds /\ calls[c].fpc = "sent")
              ~> (c \in CallIds /\ calls[c].nw = 1 /\ calls[c].res # <<>>
                      /\ calls[c].ochan \o calls[c].got = calls[c].res)
    /\ [](\A c \in CallIds : calls[c].nw <= 1)

\* C4, witness: Shutdown has closed the signal and waits, while a dispatcher
\* holds a request it was handed and has not yet run the act; later the
\* request is answered.
C4_Witness ==
    \E c \in CallIds, d \in CallIds, l \in LaneIds :
        /\ calls[c].fpc = "sent"
        /\ calls[c].nw = 1
        /\ calls[d].fpc = "sent"
        /\ lanes[l].cur = d
        /\ lanes[l].pc = "lock"
        /\ sd[lanes[l].actor].pc = "wait"

\* C5: a call of Shutdown that does not panic returns, and on an actor
\* without lanes nothing keeps it from returning.
C5_ShutdownReturns ==
    /\ \A a \in Actors : (sd[a].pc = "wait" /\ ~panicked) ~> (sd[a].pc = "idle")
    /\ [](\A a \in Actors :
            (sd[a].pc = "wait" /\ ~panicked /\ LanesOf(a) = {}) => ENABLED ShutdownReturn(a))

\* C5, witness: Shutdown has returned on an actor whose lane served a
\* request, while another call was dropped.
C5_Witness ==
    \E a \in Actors, c \in CallIds :
        /\ sd[a].returns = 1
        /\ \E l \in LanesOf(a) : lanes[l].execd # <<>>
        /\ calls[c].fpc = "dropped"

\* the call main made as its k-th on the key, if it was made
AtomicCalls(k) == {c \in CallIds : calls[c].scr = k}

\* The store is at rest when the write P is issued: the responses of both
\* earlier puts were read before del was called, and the response of del
\* before P was; so the key is deleted and no earlier write is in flight.
AtRest(P) ==
    \E D \in AtomicCalls(3) \cap calls[P].before :
        AtomicCalls(1) \cup AtomicCalls(2) \subseteq calls[D].before

\* the value of key 5 before the write, then: that of an absent key
PreWrite == Zero

\* C11: Get(5), issued after Put(5, v) without waiting for its response,
\* returns the value key 5 had before the write or v (v is 100, or the 999
\* of main), when no other write is in flight; whatever is in flight, it
\* returns a value that some act wrote or the zero value, and the act of a
\* Reader lane never runs while the act of a Writer lane is between its
\* start and its end.
C11_Atomic ==
    /\ \A G \in AtomicCalls(6), P \in AtomicCalls(5) :
          AtRest(P) =>
              /\ calls[G].res \in {<<>>, <<PreWrite>>, <<calls[P].in.Val>>}
              /\ calls[G].got \in {<<>>, <<PreWrite>>, <<calls[P].in.Val>>}
    /\ \A G \in AtomicCalls(6), P \in AtomicCalls(5) :
          calls[G].res \in {<<>>, <<Zero>>, <<-1>>, <<5>>, <<calls[P].in.Val>>}
    /\ ~panicked
    /\ \A g \in LaneIds, p \in LaneIds :
          (/\ lanes[g].actor = lanes[p].actor
           /\ lanes[g].act = "Get"
           /\ lanes[p].act \in {"Put", "Del"}
           /\ InAct(p))
          => ~InAct(g)

\* C11, witness: with the store at rest, the Get runs its act while the
\* dispatcher of put holds Put(5, 100) and waits in lock().
C11_Witness ==
    \E G \in AtomicCalls(6), P \in AtomicCalls(5) :
        /\ AtRest(P)
        /\ calls[P].in.Val = 100
        /\ P \notin calls[G].before
        /\ lanes[calls[G].lane].cur = G
        /\ lanes[calls[G].lane].pc = "act"
        /\ lanes[calls[P].lane].cur = P
        /\ lanes[calls[P].lane].pc = "lock"

\* C12: Reader lanes do not keep each other out.  A Reader lane that is in
\* lock() while no Writer lane of its actor holds the lock or asks for it
\* can take the lock at once, whatever the other Reader lanes are doing; so
\* two Reader lanes execute their acts at the same time.
C12_NoFalseExclusion ==
    \A l \in LaneIds :
        (/\ ~panicked
         /\ lanes[l].rw = Read
         /\ lanes[l].pc = "lock"
         /\ \A k \in LanesOf(lanes[l].actor) :
               lanes[k].rw # Read => lanes[k].pc \notin {"lock", "act", "unlock"})
        => ENABLED LockStep(l)

\* C12, witness: two Reader lanes of an actor are both between lock() and
\* unlock(), their acts not yet run, and the lock counts two readers.
C12_Witness ==
    \E l1 \in LaneIds, l2 \in LaneIds :
        /\ l1 # l2
        /\ lanes[l1].actor = lanes[l2].actor
        /\ lanes[l1].rw = Read /\ lanes[l2].rw = Read
        /\ lanes[l1].pc = "act" /\ lanes[l2].pc = "act"
        /\ actlk[lanes[l1].actor].readers = 2

\* C13: the wrapper does not block.  While the process runs, every wrapper
\* can be invoked with every input, whatever its lane, the other calls and
\* Shutdown are doing; and the invocation is one step that adds one call with
\* a new, empty response channel and touches neither a lane nor the lock.
C13_NeverBlocks ==
    /\ [](\A l \in LaneIds :
            ~panicked => \A i \in Inputs(lanes[l].act) : ENABLED Invoke(l, i, 0))
    /\ [][Len(calls') # Len(calls) =>
            /\ Len(calls') = Len(calls) + 1
            /\ SubSeq(calls', 1, Len(calls)) = calls
            /\ calls'[Len(calls')].ochan = <<>>
            /\ calls'[Len(calls')].nw = 0
            /\ calls'[Len(calls')].fpc = "wait"
            /\ UNCHANGED <<lanes, actlk, wg, quit, closed, sd>>]_vars

\* C13, witness: a wrapper was invoked after Shutdown returned, on a lane
\* whose dispatcher has ended and that served a call before.
C13_Witness ==
    \E c \in CallIds, d \in CallIds :
        /\ calls[c].at > 0
        /\ calls[c].fpc = "wait"
        /\ calls[d].lane = calls[c].lane
        /\ calls[d].fpc = "sent"
        /\ lanes[calls[c].lane].pc = "done"

\* the places at which call c stands in the sequences q[l] of the lanes
Places(q, c) == {<<l, p>> \in LaneIds \X (1..Len(calls)) : p <= Len(q[l]) /\ q[l][p] = c}

\* C14: a response channel holds at most one value and is written at most
\* once; a request is received by one dispatcher, the one of its lane, once,
\* and its act is invoked at most once; and when a dispatcher comes to write
\* a result the channel is empty, so that the write does not wait for the
\* caller to read.
C14_OneValue ==
    /\ \A c \in CallIds :
          /\ Len(calls[c].ochan) <= 1
          /\ calls[c].nw <= 1
          /\ calls[c].nw = 0 => calls[c].ochan = <<>> /\ calls[c].got = <<>>
          /\ Places([l \in LaneIds |-> lanes[l].recvd], c)
                \subseteq {<<calls[c].lane, p>> : p \in 1..Len(calls)}
          /\ Cardinality(Places([l \in LaneIds |-> lanes[l].recvd], c))
                = (IF calls[c].fpc = "sent" THEN 1 ELSE 0)
          /\ Cardinality(Places([l \in LaneIds |-> lanes[l].execd], c)) <= 1
    /\ \A l \in LaneIds :
          (lanes[l].pc = "reply" /\ ~panicked) =>
              /\ calls[lanes[l].cur].ochan = <<>>
              /\ calls[lanes[l].cur].nw = 0
              /\ ENABLED Reply(l)

\* C14, witness: a dispatcher is about to write the result of a call while
\* the response of the call it served before lies unread in its channel.
C14_Witness ==
    \E l \in LaneIds, c \in CallIds :
        /\ lanes[l].pc = "reply"
        /\ calls[c].lane = l
        /\ c # lanes[l].cur
        /\ calls[c].ochan # <<>>
        /\ calls[c].got = <<>>

\* all that belongs to actor a: its fields, its map, its lanes and the calls
\* made through their wrappers
View(a) ==
    <<quit[a], made[a] \cap closed, made[a], wg[a], actlk[a], sd[a], m[a],
      [l \in LanesOf(a) |-> lanes[l]], [c \in CallsOf(a) |-> calls[c]]>>

\* C15: a step changes what belongs to one actor and leaves what belongs
\* to every other actor as it was (its lock, its signal, its counter, its
\* lanes, its calls); and a dispatcher in lock() can take its actor's lock
\* whenever no lane of the same actor is between lock() and unlock(),
\* whatever the lanes of other actors hold.
C15_Independent ==
    /\ [][\A a \in Actors, b \in Actors :
            (a # b /\ View(a)' # View(a)) => View(b)' = View(b)]_vars
    /\ [](\A l \in LaneIds :
            (/\ ~panicked
             /\ lanes[l].pc = "lock"
             /\ \A k \in LanesOf(lanes[l].actor) : ~InAct(k))
            => ENABLED LockStep(l))

\* C15, witness: a Writer lane of one actor and a Writer lane of another
\* are both between lock() and unlock(), while Shutdown of the first actor
\* has closed its signal.
C15_Witness ==
    \E l1 \in LaneIds, l2 \in LaneIds :
        /\ lanes[l1].actor # lanes[l2].actor
        /\ lanes[l1].rw = Write /\ lanes[l2].rw = Write
        /\ lanes[l1].pc = "act" /\ lanes[l2].pc = "act"
        /\ quit[lanes[l1].actor] \in closed
        /\ quit[lanes[l2].actor] \notin closed

\* C16 as stated: once Shutdown of an actor has returned, no act execution
\* starts on any of its lanes; a call made after the return is never handed
\* to a dispatcher, its act never runs and nothing is written to its
\* response channel.
C16_NothingAfterReturn ==
    /\ [](\A c \in CallIds :
            calls[c].at > 0 =>
                /\ calls[c].fpc \in {"wait", "dropped"}
                /\ calls[c].res = <<>>
                /\ calls[c].nw = 0
                /\ calls[c].ochan = <<>>
                /\ \A l \in LaneIds : lanes[l].cur # c /\ Pos(lanes[l].recvd, c) = 0)
    /\ [][\A a \in Actors :
            sd[a].returns >= 1 =>
                \A l \in LanesOf(a) : lanes'[l].execd = lanes[l].execd]_vars

\* C16, amended: once a Shutdown that closed the signal of an actor has
\* returned, no dispatcher of the actor receives a request and no act
\* execution starts on any of its lanes, those registered later included; a
\* call made in such a state is never handed to a dispatcher, its act never
\* runs and nothing is written to its response channel.  From the close of
\* its signal on a dispatcher receives nothing: it only finishes the request
\* it holds.  (A Shutdown of an actor without a lane closes nothing, and the
\* lanes registered after it serve their calls.)
C16_NothingOnceClosed ==
    /\ [](\A c \in CallIds :
            calls[c].down =>
                /\ calls[c].fpc \in {"wait", "dropped"}
                /\ calls[c].res = <<>>
                /\ calls[c].nw = 0
                /\ calls[c].ochan = <<>>
                /\ \A l \in LaneIds : lanes[l].cur # c /\ Pos(lanes[l].recvd, c) = 0)
    /\ [][\A a \in Actors :
            Down(a) =>
                \A l \in LanesOf(a) : /\ lanes'[l].execd = lanes[l].execd
                                       /\ lanes'[l].recvd = lanes[l].recvd]_vars
    /\ [][\A l \in LaneIds :
            lanes[l].sig \in closed => lanes'[l].recvd = lanes[l].recvd]_vars

\* C16, witness: a call was served; the Shutdown that closed the signal
\* returned; a lane was registered after that, and a call then made through
\* the wrapper of the first lane was dropped.
C16_Witness ==
    \E c \in CallIds, d \in CallIds, k \in LaneIds :
        /\ calls[d].lane = calls[c].lane
        /\ calls[d].nw = 1
        /\ calls[c].down
        /\ calls[c].fpc = "dropped"
        /\ lanes[k].actor = lanes[calls[c].lane].actor
        /\ lanes[k].at >= 1
        /\ lanes[k].pc = "done"

\* C17: once the signal of its actor is closed, a forwarding goroutine that
\* waits to hand over its request, whether it was started before the close
\* or by a call made after it, ends: it hands the request to a dispatcher
\* or takes its quit case (or the process ends in a panic).
C17_NoLeak ==
    \A c \in 1..LiveCalls :
        (c \in CallIds /\ calls[c].fpc = "wait" /\ calls[c].sig \in closed)
            ~> (c \in CallIds /\ (calls[c].fpc \in {"sent", "dropped"} \/ panicked))

\* C17, witness: a forwarding goroutine that waited when Shutdown was called
\* and one started after Shutdown returned have both taken the quit case.
C17_Witness ==
    \E c \in CallIds, d \in CallIds :
        /\ calls[c].at = 0
        /\ calls[c].fpc = "dropped"
        /\ calls[d].at > 0
        /\ calls[d].fpc = "dropped"

\* the calls of lane l that a dispatcher received and has not answered
InService(l) ==
    {c \in CallIds : calls[c].lane = l /\ calls[c].fpc = "sent" /\ calls[c].nw = 0}

\* C18: a lane, of shared mode or not, has at most one request in service,
\* the one its dispatcher holds; it receives the next only after it answered
\* that one, so its acts run one at a time in the order of receipt, and the
\* readers that hold the lock are dispatchers of distinct Reader lanes.
C18_OneAtATime ==
    \A l \in LaneIds :
        /\ Cardinality(InService(l)) <= 1
        /\ InService(l) = (IF lanes[l].pc \in {"lock", "act", "unlock", "reply"}
                             THEN {lanes[l].cur} ELSE {})
        /\ Len(lanes[l].recvd) - Len(lanes[l].execd)
              = (IF lanes[l].pc \in {"lock", "act"} THEN 1 ELSE 0)
        /\ \A p \in 1..Len(lanes[l].execd) : lanes[l].execd[p] = lanes[l].recvd[p]
        /\ \A p \in 1..Len(lanes[l].recvd) :
              p < Len(lanes[l].recvd) => calls[lanes[l].recvd[p]].nw = 1
        /\ actlk[lanes[l].actor].readers
              <= Cardinality({k \in LanesOf(lanes[l].actor) : lanes[k].rw = Read /\ InAct(k)})

\* C18, witness: of two calls made through the wrapper of a Reader lane one
\* is being executed and the other waits to be received.
C18_Witness ==
    \E l \in LaneIds, c \in CallIds, d \in CallIds :
        /\ lanes[l].rw = Read
        /\ calls[c].lane = l /\ calls[d].lane = l
        /\ lanes[l].pc = "act"
        /\ lanes[l].cur = c
        /\ calls[d].fpc = "wait"

\* the lanes of actor a that are between lock() and unlock(), by mode
Holders(a, shared) ==
    {l \in LanesOf(a) : InAct(l) /\ (lanes[l].rw = Read) = shared}

\* C19: the lock of an actor is held in shared mode by as many readers as
\* there are Reader lanes between lock() and unlock(), and in exclusive mode
\* exactly when one Writer lane is there; so it is free whenever no lane of
\* the actor is there: with every dispatcher listening, writing a response
\* or ended, also after Shutdown returned, when no lane registered before
\* the return holds it.
C19_LockBalance ==
    \A a \in Actors :
        /\ actlk[a].readers = Cardinality(Holders(a, TRUE))
        /\ actlk[a].writer = (Holders(a, FALSE) # {})
        /\ Cardinality(Holders(a, FALSE)) <= 1
        /\ (\A l \in LanesOf(a) : lanes[l].pc \in {"listen", "reply", "done"})
              => actlk[a] = [readers |-> 0, writer |-> FALSE]
        /\ \A l \in TaughtBeforeReturn(a) : ~InAct(l)
        /\ (sd[a].returns >= 1 /\ \A l \in LanesOf(a) : ~InAct(l))
              => actlk[a] = [readers |-> 0, writer |-> FALSE]

\* C19, witness: Shutdown has returned on an actor whose Reader lane and
\* whose Writer lane each ran an act, and the lock is free.
C19_Witness ==
    \E a \in Actors, r \in LaneIds, w \in LaneIds :
        /\ sd[a].returns >= 1
        /\ lanes[r].actor = a /\ lanes[w].actor = a
        /\ lanes[r].rw = Read /\ lanes[r].execd # <<>>
        /\ lanes[w].rw = Write /\ lanes[w].execd # <<>>
        /\ actlk[a] = [readers |-> 0, writer |-> FALSE]

\* C20: a lane taught with a mode other than Read, Write or a value that is
\* neither, runs its act holding the lock in exclusive mode, alone; a lane
\* taught with Read runs it holding the lock in shared mode; and a step of
\* Reader is a step of Teach with Read, a step of Writer one of Teach with
\* Write.
C20_DefaultExclusive ==
    /\ [](\A l \in LaneIds :
            InAct(l) =>
                IF lanes[l].rw = Read
                  THEN /\ actlk[lanes[l].actor].readers >= 1
                       /\ ~actlk[lanes[l].actor].writer
                  ELSE /\ actlk[lanes[l].actor].writer
                       /\ actlk[lanes[l].actor].readers = 0
                       /\ \A k \in LanesOf(lanes[l].actor) \ {l} : ~InAct(k))
    /\ [][\A a \in MainActors :
            /\ Reader(a, "Get", ModeLanes) <=> Teach(a, "Get", Read, ModeLanes)
            /\ Writer(a, "Get", ModeLanes) <=> Teach(a, "Get", Write, ModeLanes)
            /\ Reader(a, "Get", ModeLanes) => lanes'[Len(lanes')].rw = Read
            /\ Writer(a, "Get", ModeLanes) => lanes'[Len(lanes')].rw = Write]_vars

\* C20, witness: a lane taught with a mode that is neither Read nor Write
\* runs its act while a Reader lane of the actor waits in lock().
C20_Witness ==
    \E l \in LaneIds, r \in LaneIds :
        /\ lanes[l].rw \notin {Read, Write}
        /\ lanes[l].pc = "act"
        /\ lanes[r].actor = lanes[l].actor
        /\ lanes[r].rw = Read
        /\ lanes[r].pc = "lock"

====
